---- MODULE Spec2Model ----
(***************************************************************************)
(* A model of the squee EventEmitter (src/src/index.ts).                   *)
(*                                                                         *)
(* Every public method is one action.  The body of a method is a function  *)
(* from an evaluation state to an evaluation state; the evaluation state   *)
(* holds the JavaScript objects the method works on (registration objects  *)
(* and listener arrays, by reference), so that an array that changes while *)
(* a for...of loop walks it behaves as it does in the program.             *)
(***************************************************************************)
EXTENDS Integers, Sequences, FiniteSets, TLC

\* Number of public calls made on the emitter in one run.
MaxOps == 4

\* Number of listener calls one public call is followed for.  A call that has
\* made that many and goes on to another is taken as one that does not
\* return; the calls that return make fewer.
MaxCalls == 24

\* Length of the arrays removeFromArray is tried on by itself.
MaxLen == 4

\* Event names the callers use.
EventNames == {"e1", "e2"}

\* The order in which the registration objects are laid out in the heap.
EventOrder == <<"e1", "e2">>

\* Listeners the callers own: plain functions that have no effect on the
\* emitter (jasmine spies in the tests).
Spies == {<<"spy", 1>>, <<"spy", 2>>}

\* Listeners the callers own that call back into the emitter when they are
\* called.  Script(k) is the body of <<"script", k>>.
Scripts == {<<"script", 1>>, <<"script", 2>>, <<"script", 3>>, <<"script", 4>>}

\* The listeners the callers pass in the runs with listeners that call back.
Callbacks == {<<"spy", 1>>} \cup Scripts

\* The listeners the callers pass in the runs with listeners that emit or
\* throw.
NestedCallbacks == {<<"spy", 1>>, <<"script", 5>>, <<"script", 6>>, <<"script", 7>>}

\* The listeners the callers pass in the runs with listeners that add
\* listeners.
GrowingCallbacks == {<<"spy", 1>>, <<"script", 8>>, <<"script", 9>>, <<"script", 10>>}

\* The items of the arrays removeFromArray is tried on by itself.
Items == Spies \cup {<<"script", 1>>}

\* Argument lists passed to emit.
ArgLists == {<<>>, <<"a">>, <<"b", "a">>}

\* An optional value: JavaScript undefined, or a value.
Undefined == <<>>

Some(x) == <<x>>

IsUndefined(o) == Len(o) = 0

\* The first positional argument of an argument list, as a listener declared
\* with one parameter sees it.
FirstArg(args) == IF Len(args) > 0 THEN args[1] ELSE "undefined"

VARIABLES
    registrations,      \* event name -> Undefined or Some(registration)
    anyRegistrations,   \* listeners to fire on all events
    promises,           \* the promises waitFor and waitForFirst returned
    firstEmitted,       \* event name -> args of its first emission since
                        \* creation or the last reset (observation)
    lastOp,             \* the last public call (observation)
    invoked,            \* listener invocations made by the last call
    raised,             \* the error the last call threw, if any
    thrownBy,           \* the listener in whose body that error arose, if any
    waitCalls,          \* per promise, how often its listener has been called
    overwritten,        \* the first args that the last call replaced by others
    returned,           \* what the last call returned, if it was a call of
                        \* removeFromArray
    nOps                \* number of public calls made

vars == <<registrations, anyRegistrations, promises, firstEmitted, lastOp,
          invoked, raised, thrownBy, waitCalls, overwritten, returned, nOps>>

-----------------------------------------------------------------------------
(* The heap of one evaluation.                                             *)

\* The array object of anyRegistrations.
AnyArray == 1

\* Array objects of the registration of the i-th event name at load time.
FirstOnlyArrayOf(i) == 2 * i

ListenersArrayOf(i) == 2 * i + 1

EventIndex(eventName) == CHOOSE i \in 1..Len(EventOrder) : EventOrder[i] = eventName

\* The contents of a registration that is not there (never read).
BlankContents == [firstArgs |-> Undefined, firstOnlyListeners |-> <<>>, listeners |-> <<>>]

Contents(regs, eventName) ==
    IF IsUndefined(regs[eventName]) THEN BlankContents ELSE regs[eventName][1]

ContentsOf(eventName) == Contents(registrations, eventName)

\* The same, at the end of a step.
ContentsAfter(eventName) == Contents(registrations', eventName)

\* The array objects at the start of a call: anyRegistrations, then the two
\* arrays of each of the first n event names.
RECURSIVE LoadArrays(_)
LoadArrays(n) ==
    IF n = 0 THEN <<anyRegistrations>>
    ELSE LoadArrays(n - 1) \o <<ContentsOf(EventOrder[n]).firstOnlyListeners,
                                ContentsOf(EventOrder[n]).listeners>>

\* The registration objects of the first n event names at the start of a call.
RECURSIVE LoadObjects(_)
LoadObjects(n) ==
    IF n = 0 THEN <<>>
    ELSE Append(LoadObjects(n - 1),
                [firstArgs |-> ContentsOf(EventOrder[n]).firstArgs,
                 firstOnlyListeners |-> FirstOnlyArrayOf(n),
                 listeners |-> ListenersArrayOf(n)])

\* this.registrations at the start of a call, for the first n event names:
\* the registration object of a name, or 0 for undefined.
RECURSIVE LoadRegistrations(_)
LoadRegistrations(n) ==
    IF n = 0 THEN <<>>
    ELSE (EventOrder[n] :> (IF IsUndefined(registrations[EventOrder[n]]) THEN 0 ELSE n))
             @@ LoadRegistrations(n - 1)

\* The evaluation state a public call starts in.
Load ==
    [ arrays |-> LoadArrays(Len(EventOrder)),
      objects |-> LoadObjects(Len(EventOrder)),
      registrations |-> LoadRegistrations(Len(EventOrder)),
      promises |-> promises,
      waitCalls |-> waitCalls,
      invoked |-> <<>>,
      overwritten |-> <<>>,
      returned |-> Undefined,
      err |-> Undefined,
      thrownBy |-> Undefined ]

\* What a registration reference holds at the end of a call.
Stored(st, e) ==
    IF st.registrations[e] = 0 THEN Undefined
    ELSE LET obj == st.objects[st.registrations[e]]
         IN Some([firstArgs |-> obj.firstArgs,
                  firstOnlyListeners |-> st.arrays[obj.firstOnlyListeners],
                  listeners |-> st.arrays[obj.listeners]])

-----------------------------------------------------------------------------
(* Helpers of index.ts.                                                    *)

Splice(array, i) == [k \in 1..(Len(array) - 1) |-> IF k < i THEN array[k] ELSE array[k + 1]]

\* removeFromArray without line 16 (i -= 1): the element that moves into the
\* place of a removed one is not looked at.
RECURSIVE RemoveLoopNoStepBack(_, _, _, _)
RemoveLoopNoStepBack(array, item, i, removed) ==
    IF i > Len(array) THEN [array |-> array, removed |-> removed]
    ELSE IF array[i] = item THEN RemoveLoopNoStepBack(Splice(array, i), item, i + 1, TRUE)
    ELSE RemoveLoopNoStepBack(array, item, i + 1, removed)

\* removeFromArray with a break after the splice: the first match only is
\* removed.
RemoveLoopStopsAtFirst(array, item, i, removed) ==
    IF \E k \in i..Len(array) : array[k] = item
    THEN [array |-> Splice(array, CHOOSE k \in i..Len(array) :
                                     /\ array[k] = item
                                     /\ \A j \in i..(k - 1) : array[j] # item),
          removed |-> TRUE]
    ELSE [array |-> array, removed |-> removed]

RECURSIVE RemoveLoop(_, _, _, _)
RemoveLoop(array, item, i, removed) ==
    IF i > Len(array) THEN [array |-> array, removed |-> removed]
    ELSE IF array[i] = item THEN RemoveLoop(Splice(array, i), item, i, TRUE)
    ELSE RemoveLoop(array, item, i + 1, removed)

\* removeFromArray(array, item) on the array object `array`.
removeFromArray(st, array, item) ==
    LET r == RemoveLoop(st.arrays[array], item, 1, FALSE)
    IN [st |-> [st EXCEPT !.arrays[array] = r.array], removed |-> r.removed]

\* createNewRegistration(), stored under eventName.
createNewRegistration(st, eventName) ==
    LET n == Len(st.arrays)
        o == Len(st.objects) + 1
    IN [st EXCEPT !.arrays = @ \o <<(<<>>), (<<>>)>>,
                  !.objects = Append(@, [firstArgs |-> Undefined,
                                         firstOnlyListeners |-> n + 1,
                                         listeners |-> n + 2]),
                  !.registrations[eventName] = o]

safelyGetRegistration(st, eventName) ==
    IF st.registrations[eventName] = 0 THEN createNewRegistration(st, eventName)
    ELSE st

-----------------------------------------------------------------------------
(* Public methods.                                                         *)

\* on that stores the listener twice.
onPushesTwice(st, eventName, listener) ==
    LET s1 == safelyGetRegistration(st, eventName)
        registration == s1.objects[s1.registrations[eventName]]
    IN [s1 EXCEPT !.arrays[registration.listeners] = Append(Append(@, listener), listener)]

on(st, eventName, listener) ==
    LET s1 == safelyGetRegistration(st, eventName)
        registration == s1.objects[s1.registrations[eventName]]
    IN [s1 EXCEPT !.arrays[registration.listeners] = Append(@, listener)]

onAny(st, listener) ==
    [st EXCEPT !.arrays[AnyArray] = Append(@, listener)]

\* The Error of index.ts line 234.
NonExistentListenerError(eventName) ==
    [name |-> "Error", message |-> "Tried to remove a non-existent listener for event name",
     eventName |-> eventName]

\* off() that empties the lists of every registration and keeps the
\* registrations and their first args.
offAllKeepsFirstArgs(st) ==
    [st EXCEPT !.arrays = [k \in 1..Len(st.arrays) |->
                              IF k = AnyArray THEN st.arrays[k] ELSE <<>>]]

\* off() that also empties the onAny listeners.
offAllClearsAny(st) ==
    [st EXCEPT !.registrations = [e \in EventNames |-> 0],
               !.arrays[AnyArray] = <<>>]

\* off(): line 218-221.
offAll(st) == [st EXCEPT !.registrations = [e \in EventNames |-> 0]]

\* off(eventName) that empties the two lists and keeps the first args.
offEventKeepsFirstArgs(st, eventName) ==
    LET s1 == safelyGetRegistration(st, eventName)
        registration == s1.objects[s1.registrations[eventName]]
    IN [s1 EXCEPT !.arrays[registration.firstOnlyListeners] = <<>>,
                  !.arrays[registration.listeners] = <<>>]

\* off(eventName) that resets the first args and the first-only listeners and
\* keeps the listeners.
offEventKeepsListeners(st, eventName) ==
    LET s1 == safelyGetRegistration(st, eventName)
        registration == s1.registrations[eventName]
    IN [s1 EXCEPT !.arrays[s1.objects[registration].firstOnlyListeners] = <<>>,
                  !.objects[registration].firstArgs = Undefined]

\* off(eventName) that resets every event name, as off() does.
offEventClearsEveryName(st, eventName) == offAll(st)

\* off(eventName): line 223-226.
offEvent(st, eventName) == createNewRegistration(st, eventName)

\* off(eventName, listener) that throws when the listener was not in
\* listeners, whatever firstOnlyListeners held.
offListenerChecksListenersOnly(st, eventName, listener) ==
    LET s1 == safelyGetRegistration(st, eventName)
        registration == s1.objects[s1.registrations[eventName]]
        r1 == removeFromArray(s1, registration.listeners, listener)
        r2 == removeFromArray(r1.st, registration.firstOnlyListeners, listener)
    IN IF ~r1.removed
       THEN [r2.st EXCEPT !.err = Some(NonExistentListenerError(eventName))]
       ELSE r2.st

\* off(eventName, listener) that also forgets the first args.
offListenerForgetsFirstArgs(st, eventName, listener) ==
    LET s1 == safelyGetRegistration(st, eventName)
        registration == s1.registrations[eventName]
        r1 == removeFromArray(s1, s1.objects[registration].listeners, listener)
        r2 == removeFromArray(r1.st, s1.objects[registration].firstOnlyListeners, listener)
    IN IF ~r1.removed /\ ~r2.removed
       THEN [r2.st EXCEPT !.err = Some(NonExistentListenerError(eventName))]
       ELSE [r2.st EXCEPT !.objects[registration].firstArgs = Undefined]

\* off(eventName, listener) with || for && in line 233: it throws after it has
\* removed the listener from one of the two lists.
offListenerThrowsUnlessInBoth(st, eventName, listener) ==
    LET s1 == safelyGetRegistration(st, eventName)
        registration == s1.objects[s1.registrations[eventName]]
        r1 == removeFromArray(s1, registration.listeners, listener)
        r2 == removeFromArray(r1.st, registration.firstOnlyListeners, listener)
    IN IF ~r1.removed \/ ~r2.removed
       THEN [r2.st EXCEPT !.err = Some(NonExistentListenerError(eventName))]
       ELSE r2.st

\* off(eventName, listener): line 228-235.
offListener(st, eventName, listener) ==
    LET s1 == safelyGetRegistration(st, eventName)
        registration == s1.objects[s1.registrations[eventName]]
        r1 == removeFromArray(s1, registration.listeners, listener)
        wasInListeners == r1.removed
        r2 == removeFromArray(r1.st, registration.firstOnlyListeners, listener)
        wasInFirstOnlyListeners == r2.removed
    IN IF ~wasInListeners /\ ~wasInFirstOnlyListeners
       THEN [r2.st EXCEPT !.err = Some(NonExistentListenerError(eventName))]
       ELSE r2.st

\* off(eventName?, listener?); each parameter is Undefined or Some(value).
off(st, eventName, listener) ==
    IF IsUndefined(eventName) THEN offAll(st)
    ELSE IF IsUndefined(listener) THEN offEvent(st, eventName[1])
    ELSE offListener(st, eventName[1], listener[1])

RECURSIVE OffAnyLoop(_, _, _)
OffAnyLoop(st, keys, listener) ==
    IF keys = {} THEN st
    ELSE LET eventName == CHOOSE e \in keys : TRUE
             registration == st.objects[st.registrations[eventName]]
             r1 == removeFromArray(st, registration.listeners, listener)
             r2 == removeFromArray(r1.st, registration.firstOnlyListeners, listener)
         IN OffAnyLoop(r2.st, keys \ {eventName}, listener)

\* offAny that removes the listener from anyRegistrations only.
offAnyOnlyAny(st, listener) == removeFromArray(st, AnyArray, listener).st

offAny(st, listener) ==
    LET r == removeFromArray(st, AnyArray, listener)
    IN OffAnyLoop(r.st, {e \in EventNames : r.st.registrations[e] # 0}, listener)

\* resolve(value) of promise p: settles it if it is still pending.
Resolve(st, p, value) ==
    IF st.promises[p].state = "pending"
    THEN [st EXCEPT !.promises[p].state = "resolved", !.promises[p].value = Some(value)]
    ELSE st

\* The wait listener without line 290 / 308: it resolves and stays
\* registered.
WaitListenerStaysRegistered(st, p, args) ==
    Resolve([st EXCEPT !.waitCalls[p] = @ + 1], p, FirstArg(args))

\* The listener that waitFor and waitForFirst create for promise p
\* (line 288-291 and 306-309).
WaitListener(st, p, args) ==
    LET s1 == Resolve([st EXCEPT !.waitCalls[p] = @ + 1], p, FirstArg(args))
    IN off(s1, Some(st.promises[p].eventName), Some(<<"wait", p>>))

\* The mark of a public call that is still running after MaxCalls listener
\* calls; it ends the evaluation of the call.
StillRunning == [name |-> "none", message |-> "the call has not returned", eventName |-> ""]

\* The Error a listener of the callers throws.
ListenerError == [name |-> "Error", message |-> "thrown by a listener", eventName |-> ""]

RECURSIVE emit(_, _, _)
RECURSIVE onFirst(_, _, _)

\* The body of the listener <<"script", k>>:
\*   1  () => emitter.off("e1", itself)
\*   2  () => emitter.off("e1", spy 1)
\*   3  () => emitter.offAny(spy 1)
\*   4  () => emitter.off("e1")
\*   5  (...args) => { if (!args.includes("b")) emitter.emit("e1", "b", "a") }
\*   6  () => { throw new Error() }
\*   7  (...args) => { if (args.length === 0) throw new Error() }
\*   8  () => emitter.on("e1", itself)
\*   9  () => emitter.on("e1", spy 1)
\*  10  () => emitter.onFirst("e1", spy 1)
Script(st, k, args) ==
    CASE k = 1 -> off(st, Some("e1"), Some(<<"script", 1>>))
      [] k = 2 -> off(st, Some("e1"), Some(<<"spy", 1>>))
      [] k = 3 -> offAny(st, <<"spy", 1>>)
      [] k = 4 -> off(st, Some("e1"), Undefined)
      [] k = 5 -> IF \E i \in 1..Len(args) : args[i] = "b" THEN st
                  ELSE emit(st, "e1", <<"b", "a">>)
      [] k = 6 -> [st EXCEPT !.err = Some(ListenerError)]
      [] k = 7 -> IF Len(args) = 0 THEN [st EXCEPT !.err = Some(ListenerError)] ELSE st
      [] k = 8 -> on(st, "e1", <<"script", 8>>)
      [] k = 9 -> on(st, "e1", <<"spy", 1>>)
      [] k = 10 -> onFirst(st, "e1", <<"spy", 1>>)

\* The body of a listener.  A spy does nothing.
Body(st, listener, args) ==
    IF listener[1] = "wait" THEN WaitListener(st, listener[2], args)
    ELSE IF listener[1] = "script" THEN Script(st, listener[2], args)
    ELSE st

\* An error that leaves the body of a listener is remembered with the listener
\* it arose in.
MarkThrower(st, listener) ==
    IF ~IsUndefined(st.err) /\ IsUndefined(st.thrownBy)
    THEN [st EXCEPT !.thrownBy = Some(listener)]
    ELSE st

\* One call of a listener: the call is recorded and the body runs.  The
\* evaluation follows a public call for MaxCalls listener calls.
Invoke(st, listener, args, pass) ==
    IF Len(st.invoked) >= MaxCalls THEN [st EXCEPT !.err = Some(StillRunning)]
    ELSE MarkThrower(Body([st EXCEPT !.invoked = Append(@, [listener |-> listener,
                                                            args |-> args,
                                                            pass |-> pass])],
                          listener, args), listener)

\* for...of that goes on with the next listener after one has thrown.
RECURSIVE ForOfGoesOn(_, _, _, _, _)
ForOfGoesOn(st, array, index, args, pass) ==
    IF index > Len(st.arrays[array]) THEN st
    ELSE ForOfGoesOn(Invoke(st, st.arrays[array][index], args, pass), array, index + 1,
                     args, pass)

\* for (const listener of array) listener(...args): the array iterator reads
\* the live array, one index after the other, until the index is past its
\* end; a listener that throws ends the loop.
RECURSIVE ForOf(_, _, _, _, _)
ForOf(st, array, index, args, pass) ==
    IF ~IsUndefined(st.err) \/ index > Len(st.arrays[array]) THEN st
    ELSE ForOf(Invoke(st, st.arrays[array][index], args, pass), array, index + 1,
               args, pass)

\* onFirst without line 192-194: the listener is only stored.
onFirstPushOnly(st, eventName, listener) ==
    LET s1 == safelyGetRegistration(st, eventName)
        registration == s1.objects[s1.registrations[eventName]]
    IN [s1 EXCEPT !.arrays[registration.firstOnlyListeners] = Append(@, listener)]

\* onFirst that returns after line 193 when the name has fired: the listener
\* is called and not stored.
onFirstCallsOrPushes(st, eventName, listener) ==
    LET s1 == safelyGetRegistration(st, eventName)
        registration == s1.registrations[eventName]
    IN IF ~IsUndefined(s1.objects[registration].firstArgs)
       THEN Invoke(s1, listener, s1.objects[registration].firstArgs[1], "immediate")
       ELSE [s1 EXCEPT !.arrays[s1.objects[registration].firstOnlyListeners] =
                            Append(@, listener)]

\* onFirst that stores the listener although its immediate call threw.
onFirstPushesAnyway(st, eventName, listener) ==
    LET s1 == safelyGetRegistration(st, eventName)
        registration == s1.registrations[eventName]
        s2 == IF ~IsUndefined(s1.objects[registration].firstArgs)
              THEN Invoke(s1, listener, s1.objects[registration].firstArgs[1], "immediate")
              ELSE s1
    IN [s2 EXCEPT !.arrays[s2.objects[registration].firstOnlyListeners] =
                      Append(@, listener)]

onFirst(st, eventName, listener) ==
    LET s1 == safelyGetRegistration(st, eventName)
        registration == s1.registrations[eventName]
        s2 == IF ~IsUndefined(s1.objects[registration].firstArgs)
              THEN Invoke(s1, listener, s1.objects[registration].firstArgs[1], "immediate")
              ELSE s1
    IN IF ~IsUndefined(s2.err) THEN s2
       ELSE [s2 EXCEPT !.arrays[s2.objects[registration].firstOnlyListeners] =
                            Append(@, listener)]

\* Line 267-268 of emit with an emission without arguments not kept as the
\* first one: firstArgs stays unset after emit(e).
EndFirstPassIgnoresNoArgs(st, registration, args) ==
    IF ~IsUndefined(st.err) THEN st
    ELSE [st EXCEPT !.objects[registration].firstArgs =
                        IF Len(args) = 0 THEN @ ELSE Some(args),
                    !.arrays = Append(@, <<>>),
                    !.objects[registration].firstOnlyListeners = Len(st.arrays) + 1]

\* Line 267 of emit without line 268: the args are kept and the first-only
\* listeners stay in their list.
EndFirstPassKeepsList(st, registration, args) ==
    IF ~IsUndefined(st.err) THEN st
    ELSE [st EXCEPT !.objects[registration].firstArgs = Some(args)]

\* Line 267-268 of emit, reached when no first-only listener threw: the args
\* are kept and the registration gets a new, empty first-only array.  First
\* args that were there before the assignment are noted as overwritten.
EndFirstPass(st, registration, args) ==
    IF ~IsUndefined(st.err) THEN st
    ELSE [st EXCEPT !.objects[registration].firstArgs = Some(args),
                    !.arrays = Append(@, <<>>),
                    !.objects[registration].firstOnlyListeners = Len(st.arrays) + 1,
                    !.overwritten = @ \o st.objects[registration].firstArgs]

\* Line 262-269 of emit without the test of line 262: every emission walks
\* the first-only listeners.
EmitFirstAlways(st, registration, args) ==
    EndFirstPass(ForOf(st, st.objects[registration].firstOnlyListeners, 1, args,
                       "firstOnly"),
                 registration, args)

\* Line 262-269 of emit.
EmitFirst(st, registration, args) ==
    IF IsUndefined(st.objects[registration].firstArgs)
    THEN EndFirstPass(ForOf(st, st.objects[registration].firstOnlyListeners, 1, args,
                            "firstOnly"),
                      registration, args)
    ELSE st

\* Line 271-273 of emit.
EmitListeners(st, registration, args) ==
    IF ~IsUndefined(st.err) THEN st
    ELSE ForOf(st, st.objects[registration].listeners, 1, args, "listeners")

\* Line 275-277 of emit.
EmitAny(st, eventName, args) == ForOf(st, AnyArray, 1, <<eventName>> \o args, "any")

emit(st, eventName, args) ==
    LET s1 == safelyGetRegistration(st, eventName)
        registration == s1.registrations[eventName]
    IN EmitAny(EmitListeners(EmitFirst(s1, registration, args), registration, args),
               eventName, args)

\* new Promise(executor): the promise exists before the executor runs.
NewPromise(st, eventName, method) ==
    [st EXCEPT !.promises = Append(@, [eventName |-> eventName, method |-> method,
                                       state |-> "pending", value |-> Undefined]),
               !.waitCalls = Append(@, 0)]

\* The end of a promise executor: an error it threw rejects the promise if it
\* is still pending, and goes no further.
ExecutorEnd(st, p) ==
    IF IsUndefined(st.err) THEN st
    ELSE [st EXCEPT !.err = Undefined,
                    !.thrownBy = Undefined,
                    !.promises[p].state = IF @ = "pending" THEN "rejected" ELSE @]

\* waitFor that registers with onFirst, as waitForFirst does.
waitForViaOnFirst(st, eventName) ==
    LET p == Len(st.promises) + 1
    IN ExecutorEnd(onFirst(NewPromise(st, eventName, "waitFor"), eventName,
                           <<"wait", p>>), p)

waitFor(st, eventName) ==
    LET p == Len(st.promises) + 1
    IN ExecutorEnd(on(NewPromise(st, eventName, "waitFor"), eventName, <<"wait", p>>), p)

\* waitForFirst that registers with on, as waitFor does.
waitForFirstViaOn(st, eventName) ==
    LET p == Len(st.promises) + 1
    IN ExecutorEnd(on(NewPromise(st, eventName, "waitForFirst"), eventName,
                      <<"wait", p>>), p)

waitForFirst(st, eventName) ==
    LET p == Len(st.promises) + 1
    IN ExecutorEnd(onFirst(NewPromise(st, eventName, "waitForFirst"), eventName,
                           <<"wait", p>>), p)

-----------------------------------------------------------------------------
(* Actions: one public call each.                                          *)

Op(name, eventName, listener, args) ==
    [name |-> name, eventName |-> eventName, listener |-> listener, args |-> args]

\* The end of a public call.  No call is made while one has not returned.
Finish(st, op) ==
    /\ raised # Some(StillRunning)
    /\ registrations' = [e \in EventNames |-> Stored(st, e)]
    /\ anyRegistrations' = st.arrays[AnyArray]
    /\ promises' = st.promises
    /\ invoked' = st.invoked
    /\ raised' = st.err
    /\ thrownBy' = st.thrownBy
    /\ waitCalls' = st.waitCalls
    /\ overwritten' = st.overwritten
    /\ returned' = st.returned
    /\ lastOp' = op
    /\ nOps' = nOps + 1

On(eventName, listener) ==
    /\ nOps < MaxOps
    /\ Finish(on(Load, eventName, listener),
              Op("on", Some(eventName), Some(listener), <<>>))
    /\ UNCHANGED firstEmitted

OnFirst(eventName, listener) ==
    /\ nOps < MaxOps
    /\ Finish(onFirst(Load, eventName, listener),
              Op("onFirst", Some(eventName), Some(listener), <<>>))
    /\ UNCHANGED firstEmitted

OnAny(listener) ==
    /\ nOps < MaxOps
    /\ Finish(onAny(Load, listener), Op("onAny", Undefined, Some(listener), <<>>))
    /\ UNCHANGED firstEmitted

OffAll ==
    /\ nOps < MaxOps
    /\ Finish(off(Load, Undefined, Undefined), Op("off", Undefined, Undefined, <<>>))
    /\ firstEmitted' = [e \in EventNames |-> Undefined]

OffEvent(eventName) ==
    /\ nOps < MaxOps
    /\ Finish(off(Load, Some(eventName), Undefined),
              Op("off", Some(eventName), Undefined, <<>>))
    /\ firstEmitted' = [firstEmitted EXCEPT ![eventName] = Undefined]

OffListener(eventName, listener) ==
    /\ nOps < MaxOps
    /\ Finish(off(Load, Some(eventName), Some(listener)),
              Op("off", Some(eventName), Some(listener), <<>>))
    /\ UNCHANGED firstEmitted

OffAny(listener) ==
    /\ nOps < MaxOps
    /\ Finish(offAny(Load, listener), Op("offAny", Undefined, Some(listener), <<>>))
    /\ UNCHANGED firstEmitted

Emit(eventName, args) ==
    /\ nOps < MaxOps
    /\ Finish(emit(Load, eventName, args), Op("emit", Some(eventName), Undefined, args))
    /\ firstEmitted' = IF IsUndefined(firstEmitted[eventName])
                       THEN [firstEmitted EXCEPT ![eventName] = Some(args)]
                       ELSE firstEmitted

WaitFor(eventName) ==
    /\ nOps < MaxOps
    /\ Finish(waitFor(Load, eventName), Op("waitFor", Some(eventName), Undefined, <<>>))
    /\ UNCHANGED firstEmitted

WaitForFirst(eventName) ==
    /\ nOps < MaxOps
    /\ Finish(waitForFirst(Load, eventName),
              Op("waitForFirst", Some(eventName), Undefined, <<>>))
    /\ UNCHANGED firstEmitted

Init ==
    /\ registrations = [e \in EventNames |-> Undefined]
    /\ anyRegistrations = <<>>
    /\ promises = <<>>
    /\ firstEmitted = [e \in EventNames |-> Undefined]
    /\ lastOp = Op("new", Undefined, Undefined, <<>>)
    /\ invoked = <<>>
    /\ raised = Undefined
    /\ thrownBy = Undefined
    /\ waitCalls = <<>>
    /\ overwritten = <<>>
    /\ returned = Undefined
    /\ nOps = 0

Next ==
    \/ \E e \in EventNames, l \in Spies : On(e, l)
    \/ \E e \in EventNames, l \in Spies : OnFirst(e, l)
    \/ \E l \in Spies : OnAny(l)
    \/ OffAll
    \/ \E e \in EventNames : OffEvent(e)
    \/ \E e \in EventNames, l \in Spies : OffListener(e, l)
    \/ \E l \in Spies : OffAny(l)
    \/ \E e \in EventNames, args \in ArgLists : Emit(e, args)
    \/ \E e \in EventNames : WaitFor(e)
    \/ \E e \in EventNames : WaitForFirst(e)

Spec == Init /\ [][Next]_vars

\* The runs in which the callers never call off or offAny.
NextNoOff ==
    \/ \E e \in EventNames, l \in Spies : On(e, l)
    \/ \E e \in EventNames, l \in Spies : OnFirst(e, l)
    \/ \E l \in Spies : OnAny(l)
    \/ \E e \in EventNames, args \in ArgLists : Emit(e, args)
    \/ \E e \in EventNames : WaitFor(e)
    \/ \E e \in EventNames : WaitForFirst(e)

SpecNoOff == Init /\ [][NextNoOff]_vars

\* The runs on one event name in which listeners call back into the emitter.
NextReentrant ==
    \/ \E l \in Callbacks : On("e1", l)
    \/ \E l \in Callbacks : OnFirst("e1", l)
    \/ \E l \in Callbacks : OnAny(l)
    \/ OffAll
    \/ OffEvent("e1")
    \/ \E l \in Callbacks : OffListener("e1", l)
    \/ \E l \in Callbacks : OffAny(l)
    \/ \E args \in ArgLists : Emit("e1", args)
    \/ WaitFor("e1")
    \/ WaitForFirst("e1")

SpecReentrant == Init /\ [][NextReentrant]_vars

\* The runs on one event name in which listeners emit the event again or
\* throw.
NextNested ==
    \/ \E l \in NestedCallbacks : On("e1", l)
    \/ \E l \in NestedCallbacks : OnFirst("e1", l)
    \/ \E l \in NestedCallbacks : OnAny(l)
    \/ OffEvent("e1")
    \/ \E l \in NestedCallbacks : OffListener("e1", l)
    \/ \E l \in NestedCallbacks : OffAny(l)
    \/ \E args \in ArgLists : Emit("e1", args)
    \/ WaitFor("e1")
    \/ WaitForFirst("e1")

SpecNested == Init /\ [][NextNested]_vars

\* The runs on one event name in which listeners add listeners to the event
\* they are called for.
NextGrowing ==
    \/ \E l \in GrowingCallbacks : On("e1", l)
    \/ \E l \in GrowingCallbacks : OnFirst("e1", l)
    \/ \E l \in GrowingCallbacks : OnAny(l)
    \/ OffEvent("e1")
    \/ \E l \in GrowingCallbacks : OffListener("e1", l)
    \/ \E args \in ArgLists : Emit("e1", args)
    \/ WaitFor("e1")
    \/ WaitForFirst("e1")

SpecGrowing == Init /\ [][NextGrowing]_vars

\* The arrays of at most n items.
RECURSIVE ArraysUpTo(_)
ArraysUpTo(n) ==
    IF n = 0 THEN {<<>>}
    ELSE ArraysUpTo(n - 1) \cup {Append(a, x) : a \in ArraysUpTo(n - 1), x \in Items}

\* removeFromArray called by itself on the array of the onAny listeners, as
\* offAny calls it in line 244.  The call is noted with the array it was given.
RemoveFromArray(item) ==
    /\ nOps < MaxOps
    /\ Finish([removeFromArray(Load, AnyArray, item).st
                   EXCEPT !.returned = Some(removeFromArray(Load, AnyArray, item).removed)],
              Op("removeFromArray", Undefined, Some(item), anyRegistrations))
    /\ UNCHANGED firstEmitted

\* An emitter whose onAny listeners are any array of at most MaxLen items.
InitRemove ==
    /\ registrations = [e \in EventNames |-> Undefined]
    /\ anyRegistrations \in ArraysUpTo(MaxLen)
    /\ promises = <<>>
    /\ firstEmitted = [e \in EventNames |-> Undefined]
    /\ lastOp = Op("new", Undefined, Undefined, <<>>)
    /\ invoked = <<>>
    /\ raised = Undefined
    /\ thrownBy = Undefined
    /\ waitCalls = <<>>
    /\ overwritten = <<>>
    /\ returned = Undefined
    /\ nOps = 0

NextRemove == \E item \in Items : RemoveFromArray(item)

SpecRemove == InitRemove /\ [][NextRemove]_vars

-----------------------------------------------------------------------------
(* The minimal variant of the emitter (src/unnamed/part_000): no onAny, an *)
(* onFirst that only stores its listener, an off that empties the arrays   *)
(* in place and an emit that does nothing for a name with no registration. *)

\* safelyGetRegistration: line 174-183.
minimalSafelyGetRegistration(st, eventName) ==
    IF st.registrations[eventName] = 0 THEN createNewRegistration(st, eventName)
    ELSE st

\* on: line 57-60.
minimalOn(st, eventName, listener) ==
    LET s1 == minimalSafelyGetRegistration(st, eventName)
        registration == s1.objects[s1.registrations[eventName]]
    IN [s1 EXCEPT !.arrays[registration.listeners] = Append(@, listener)]

\* onFirst: line 69-72.
minimalOnFirst(st, eventName, listener) ==
    LET s1 == minimalSafelyGetRegistration(st, eventName)
        registration == s1.objects[s1.registrations[eventName]]
    IN [s1 EXCEPT !.arrays[registration.firstOnlyListeners] = Append(@, listener)]

\* off(eventName): line 92-98, the two arrays are emptied in place.
minimalOffEvent(st, eventName) ==
    LET s1 == minimalSafelyGetRegistration(st, eventName)
        registration == s1.objects[s1.registrations[eventName]]
    IN [s1 EXCEPT !.arrays[registration.firstOnlyListeners] = <<>>,
                  !.arrays[registration.listeners] = <<>>]

\* off(): line 84-90, off(name) for every name that has a registration.
RECURSIVE minimalOffAll(_, _)
minimalOffAll(st, keys) ==
    IF keys = {} THEN st
    ELSE LET registeredEventName == CHOOSE e \in keys : TRUE
         IN minimalOffAll(minimalOffEvent(st, registeredEventName),
                          keys \ {registeredEventName})

\* off(eventName, listener): line 92 and 100-105.
minimalOffListener(st, eventName, listener) ==
    LET s1 == minimalSafelyGetRegistration(st, eventName)
        registration == s1.objects[s1.registrations[eventName]]
        r1 == removeFromArray(s1, registration.listeners, listener)
        wasInListeners == r1.removed
        r2 == removeFromArray(r1.st, registration.firstOnlyListeners, listener)
        wasInFirstOnlyListeners == r2.removed
    IN IF ~wasInListeners /\ ~wasInFirstOnlyListeners
       THEN [r2.st EXCEPT !.err = Some(NonExistentListenerError(eventName))]
       ELSE r2.st

\* off(eventName?, listener?): line 83-106.
minimalOff(st, eventName, listener) ==
    IF IsUndefined(eventName)
    THEN minimalOffAll(st, {e \in EventNames : st.registrations[e] # 0})
    ELSE IF IsUndefined(listener) THEN minimalOffEvent(st, eventName[1])
    ELSE minimalOffListener(st, eventName[1], listener[1])

\* The listener of waitFor and waitForFirst: line 141-144 and 159-162.
minimalWaitListener(st, p, args) ==
    minimalOff(Resolve([st EXCEPT !.waitCalls[p] = @ + 1], p, FirstArg(args)),
               Some(st.promises[p].eventName), Some(<<"wait", p>>))

\* The body of a listener: a wait listener or a spy.
minimalBody(st, listener, args) ==
    IF listener[1] = "wait" THEN minimalWaitListener(st, listener[2], args) ELSE st

\* One call of a listener.
minimalInvoke(st, listener, args, pass) ==
    MarkThrower(minimalBody([st EXCEPT !.invoked = Append(@, [listener |-> listener,
                                                              args |-> args,
                                                              pass |-> pass])],
                            listener, args), listener)

\* for (const listener of array) listener(...args), on the live array.
RECURSIVE minimalForOf(_, _, _, _, _)
minimalForOf(st, array, index, args, pass) ==
    IF ~IsUndefined(st.err) \/ index > Len(st.arrays[array]) THEN st
    ELSE minimalForOf(minimalInvoke(st, st.arrays[array][index], args, pass), array,
                      index + 1, args, pass)

\* Line 125 of emit, reached when no first-only listener threw.
minimalEndFirstPass(st, registration, args) ==
    IF ~IsUndefined(st.err) THEN st
    ELSE [st EXCEPT !.objects[registration].firstArgs = Some(args),
                    !.overwritten = @ \o st.objects[registration].firstArgs]

\* Line 120-126 of emit.
minimalEmitFirst(st, registration, args) ==
    IF IsUndefined(st.objects[registration].firstArgs)
    THEN minimalEndFirstPass(minimalForOf(st, st.objects[registration].firstOnlyListeners,
                                          1, args, "firstOnly"),
                             registration, args)
    ELSE st

\* Line 128-130 of emit.
minimalEmitListeners(st, registration, args) ==
    IF ~IsUndefined(st.err) THEN st
    ELSE minimalForOf(st, st.objects[registration].listeners, 1, args, "listeners")

\* emit that gets its registration with safelyGetRegistration, as the full
\* variant does.
minimalEmitCreates(st, eventName, args) ==
    LET s1 == minimalSafelyGetRegistration(st, eventName)
        registration == s1.registrations[eventName]
    IN minimalEmitListeners(minimalEmitFirst(s1, registration, args), registration, args)

\* emit: line 114-131.
minimalEmit(st, eventName, args) ==
    LET registration == st.registrations[eventName]
    IN IF registration = 0 THEN st
       ELSE minimalEmitListeners(minimalEmitFirst(st, registration, args),
                                 registration, args)

\* waitFor: line 139-148.
minimalWaitFor(st, eventName) ==
    LET p == Len(st.promises) + 1
    IN ExecutorEnd(minimalOn(NewPromise(st, eventName, "waitFor"), eventName,
                             <<"wait", p>>), p)

\* waitForFirst: line 157-166.
minimalWaitForFirst(st, eventName) ==
    LET p == Len(st.promises) + 1
    IN ExecutorEnd(minimalOnFirst(NewPromise(st, eventName, "waitForFirst"), eventName,
                                  <<"wait", p>>), p)

MinOn(eventName, listener) ==
    /\ nOps < MaxOps
    /\ Finish(minimalOn(Load, eventName, listener),
              Op("on", Some(eventName), Some(listener), <<>>))
    /\ UNCHANGED firstEmitted

MinOnFirst(eventName, listener) ==
    /\ nOps < MaxOps
    /\ Finish(minimalOnFirst(Load, eventName, listener),
              Op("onFirst", Some(eventName), Some(listener), <<>>))
    /\ UNCHANGED firstEmitted

MinOffAll ==
    /\ nOps < MaxOps
    /\ Finish(minimalOff(Load, Undefined, Undefined),
              Op("off", Undefined, Undefined, <<>>))
    /\ firstEmitted' = [e \in EventNames |-> Undefined]

MinOffEvent(eventName) ==
    /\ nOps < MaxOps
    /\ Finish(minimalOff(Load, Some(eventName), Undefined),
              Op("off", Some(eventName), Undefined, <<>>))
    /\ firstEmitted' = [firstEmitted EXCEPT ![eventName] = Undefined]

MinOffListener(eventName, listener) ==
    /\ nOps < MaxOps
    /\ Finish(minimalOff(Load, Some(eventName), Some(listener)),
              Op("off", Some(eventName), Some(listener), <<>>))
    /\ UNCHANGED firstEmitted

MinEmit(eventName, args) ==
    /\ nOps < MaxOps
    /\ Finish(minimalEmit(Load, eventName, args),
              Op("emit", Some(eventName), Undefined, args))
    /\ firstEmitted' = IF IsUndefined(firstEmitted[eventName])
                       THEN [firstEmitted EXCEPT ![eventName] = Some(args)]
                       ELSE firstEmitted

MinWaitFor(eventName) ==
    /\ nOps < MaxOps
    /\ Finish(minimalWaitFor(Load, eventName),
              Op("waitFor", Some(eventName), Undefined, <<>>))
    /\ UNCHANGED firstEmitted

MinWaitForFirst(eventName) ==
    /\ nOps < MaxOps
    /\ Finish(minimalWaitForFirst(Load, eventName),
              Op("waitForFirst", Some(eventName), Undefined, <<>>))
    /\ UNCHANGED firstEmitted

NextMinimal ==
    \/ \E e \in EventNames, l \in Spies : MinOn(e, l)
    \/ \E e \in EventNames, l \in Spies : MinOnFirst(e, l)
    \/ MinOffAll
    \/ \E e \in EventNames : MinOffEvent(e)
    \/ \E e \in EventNames, l \in Spies : MinOffListener(e, l)
    \/ \E e \in EventNames, args \in ArgLists : MinEmit(e, args)
    \/ \E e \in EventNames : MinWaitFor(e)
    \/ \E e \in EventNames : MinWaitForFirst(e)

SpecMinimal == Init /\ [][NextMinimal]_vars

-----------------------------------------------------------------------------
(* Properties.  A step is one public call; lastOp' names it, the unprimed  *)
(* variables are the state it started in and invoked' the listener calls   *)
(* it made.                                                                *)

Step(name) == nOps' = nOps + 1 /\ lastOp'.name = name

StepOff(kind) ==
    /\ Step("off")
    /\ kind = (IF IsUndefined(lastOp'.eventName) THEN "all"
               ELSE IF IsUndefined(lastOp'.listener) THEN "event" ELSE "listener")

CallsOfPass(calls, pass) == SelectSeq(calls, LAMBDA c : c.pass = pass)

\* The calls of a pass that walks `listeners` and calls each entry once.
Expected(listeners, args, pass) ==
    [i \in 1..Len(listeners) |-> [listener |-> listeners[i], args |-> args, pass |-> pass]]

Range(seq) == {seq[i] : i \in 1..Len(seq)}

Without(seq, item) == SelectSeq(seq, LAMBDA x : x # item)

\* The registration createNewRegistration returns.
FreshRegistration == [firstArgs |-> Undefined, firstOnlyListeners |-> <<>>, listeners |-> <<>>]

\* C1: after on calls with no off in between, emit(e, args) calls every
\* occurrence in the listeners of e exactly once, with args, in the order of
\* the on calls.
C1_EmitCallsEveryOccurrenceInOrder ==
    [][Step("emit") =>
        CallsOfPass(invoked', "listeners") =
            Expected(ContentsOf(lastOp'.eventName[1]).listeners, lastOp'.args, "listeners")]_vars

\* C2: a listener registered with onFirst before any emission of e is called
\* exactly once, by the first emission and with its args; no later emission
\* calls a first-only listener.
C2_FirstOnlyCalledExactlyOnce ==
    [][Step("emit") =>
        LET e == lastOp'.eventName[1]
        IN CallsOfPass(invoked', "firstOnly") =
               IF IsUndefined(firstEmitted[e])
               THEN Expected(ContentsOf(e).firstOnlyListeners, lastOp'.args, "firstOnly")
               ELSE <<>>]_vars

\* C3: when e has been emitted since creation or the last reset, onFirst(e, L)
\* calls L inside the onFirst call, once, with the args of that first emission.
C3_OnFirstAfterEmitCallsImmediately ==
    [][Step("onFirst") =>
        LET e == lastOp'.eventName[1]
        IN ~IsUndefined(firstEmitted[e]) =>
               /\ invoked' = <<[listener |-> lastOp'.listener[1],
                                args |-> firstEmitted[e][1], pass |-> "immediate"]>>
               /\ IsUndefined(raised')]_vars

C3_Witness ==
    /\ lastOp.name = "onFirst"
    /\ nOps = 2
    /\ Len(invoked) = 1
    /\ invoked[1].args = <<"b", "a">>
    /\ invoked[1].pass = "immediate"

\* C4: a listener that onFirst called immediately is not called by a later
\* emission: an emission of an event name that has first args walks no
\* first-only listener, and whatever takes the first args away also empties
\* the first-only listeners.
C4_ImmediateListenerNotCalledAgain ==
    [][\A e \in EventNames :
        /\ (Step("emit") /\ lastOp'.eventName[1] = e /\ ~IsUndefined(firstEmitted[e]))
              => CallsOfPass(invoked', "firstOnly") = <<>>
        /\ (~IsUndefined(ContentsOf(e).firstArgs) /\ IsUndefined(ContentsAfter(e).firstArgs))
              => ContentsAfter(e).firstOnlyListeners = <<>>]_vars

C4_Witness ==
    \E e \in EventNames :
        /\ lastOp.name = "emit"
        /\ lastOp.eventName[1] = e
        /\ lastOp.args = <<"a">>
        /\ ContentsOf(e).firstArgs = Some(<<"b", "a">>)
        /\ ContentsOf(e).firstOnlyListeners = <<(<<"spy", 1>>)>>
        /\ invoked = <<>>

\* C5: off(e, L) removes every occurrence of L from both lists of e and keeps
\* the other listeners in their order; an emission calls, in its first-only
\* and listeners passes, only listeners that are in the lists of e.
C5_OffRemovesEveryOccurrence ==
    [][/\ StepOff("listener") =>
            LET e == lastOp'.eventName[1]
                l == lastOp'.listener[1]
            IN /\ ContentsAfter(e).listeners = Without(ContentsOf(e).listeners, l)
               /\ ContentsAfter(e).firstOnlyListeners =
                      Without(ContentsOf(e).firstOnlyListeners, l)
       /\ Step("emit") =>
            LET e == lastOp'.eventName[1]
            IN /\ Range(CallsOfPass(invoked', "listeners")) \subseteq
                      Range(Expected(ContentsOf(e).listeners, lastOp'.args, "listeners"))
               /\ Range(CallsOfPass(invoked', "firstOnly")) \subseteq
                      Range(Expected(ContentsOf(e).firstOnlyListeners, lastOp'.args,
                                     "firstOnly"))]_vars

C5_Witness ==
    \E e \in EventNames :
        /\ lastOp.name = "off"
        /\ lastOp.eventName = Some(e)
        /\ lastOp.listener = Some(<<"spy", 1>>)
        /\ IsUndefined(raised)
        /\ nOps = 4
        /\ ContentsOf(e).listeners = <<(<<"spy", 2>>)>>

\* C6: off(e, L) throws, to its caller and naming e, exactly when L is in
\* neither list of e.
C6_OffThrowsIffInNeitherList ==
    [][StepOff("listener") =>
        LET e == lastOp'.eventName[1]
            l == lastOp'.listener[1]
        IN raised' = IF /\ l \notin Range(ContentsOf(e).listeners)
                        /\ l \notin Range(ContentsOf(e).firstOnlyListeners)
                     THEN Some(NonExistentListenerError(e))
                     ELSE Undefined]_vars

C6_Witness ==
    /\ lastOp.name = "off"
    /\ ~IsUndefined(lastOp.listener)
    /\ ~IsUndefined(raised)
    /\ raised[1].eventName = lastOp.eventName[1]
    /\ \E e \in EventNames : Len(ContentsOf(e).firstOnlyListeners) > 0

\* C7: off(e) puts e back in the freshly created state; after it, onFirst(e, L)
\* calls nothing, and the next emit(e, newArgs) is the first emission: it
\* walks the first-only listeners from the first one, with newArgs, and
\* captures newArgs as the first args.
C7_OffEventResets ==
    [][/\ StepOff("event") =>
            /\ registrations'[lastOp'.eventName[1]] = Some(FreshRegistration)
            /\ invoked' = <<>>
            /\ IsUndefined(raised')
       /\ (Step("onFirst") /\ IsUndefined(firstEmitted[lastOp'.eventName[1]])) =>
            LET e == lastOp'.eventName[1]
            IN /\ invoked' = <<>>
               /\ ContentsAfter(e).firstOnlyListeners =
                      Append(ContentsOf(e).firstOnlyListeners, lastOp'.listener[1])
       /\ (Step("emit") /\ IsUndefined(firstEmitted[lastOp'.eventName[1]])) =>
            LET e == lastOp'.eventName[1]
                first == ContentsOf(e).firstOnlyListeners
            IN /\ ContentsAfter(e).firstArgs = Some(lastOp'.args)
               /\ \A i \in 1..Len(invoked') :
                      invoked'[i].pass = "firstOnly" => invoked'[i].args = lastOp'.args
               /\ Len(first) > 0 =>
                      invoked'[1] = [listener |-> first[1], args |-> lastOp'.args,
                                     pass |-> "firstOnly"]]_vars

C7_Witness ==
    \E e \in EventNames :
        /\ lastOp.name = "off"
        /\ lastOp.eventName = Some(e)
        /\ IsUndefined(lastOp.listener)
        /\ registrations[e] = Some(FreshRegistration)
        /\ IsUndefined(firstEmitted[e])
        /\ promises = <<[eventName |-> e, method |-> "waitForFirst",
                         state |-> "resolved", value |-> Some("b")]>>

\* C8: off() puts every event name back in the state of a new emitter, so an
\* emission that follows calls no on or onFirst listener and is the first
\* emission of its event name.
C8_OffAllResets ==
    [][/\ StepOff("all") =>
            /\ registrations' = [e \in EventNames |-> Undefined]
            /\ invoked' = <<>>
            /\ IsUndefined(raised')
       /\ (Step("emit") /\ IsUndefined(registrations[lastOp'.eventName[1]])) =>
            /\ CallsOfPass(invoked', "firstOnly") = <<>>
            /\ CallsOfPass(invoked', "listeners") = <<>>
            /\ registrations'[lastOp'.eventName[1]] =
                   Some([FreshRegistration EXCEPT !.firstArgs = Some(lastOp'.args)])]_vars

C8_Witness ==
    /\ lastOp.name = "off"
    /\ IsUndefined(lastOp.eventName)
    /\ nOps = 3
    /\ registrations = [e \in EventNames |-> Undefined]
    /\ \E e \in EventNames :
           promises = <<[eventName |-> e, method |-> "waitForFirst",
                         state |-> "resolved", value |-> Some("a")]>>

\* C9: the promise of waitFor(e) is pending when waitFor returns, also when e
\* has been emitted before, and only an emit(e, ...) step settles it.
C9_WaitForResolvedOnlyByLaterEmit ==
    [][/\ Step("waitFor") =>
            /\ promises' = Append(promises, [eventName |-> lastOp'.eventName[1],
                                             method |-> "waitFor", state |-> "pending",
                                             value |-> Undefined])
            /\ invoked' = <<>>
       /\ \A p \in 1..Len(promises) :
            (/\ promises[p].method = "waitFor"
             /\ promises[p].state = "pending"
             /\ promises'[p] # promises[p])
                => /\ Step("emit")
                   /\ lastOp'.eventName[1] = promises[p].eventName]_vars

C9_Witness ==
    \E e \in EventNames :
        /\ lastOp.name = "waitFor"
        /\ lastOp.eventName = Some(e)
        /\ firstEmitted[e] = Some(<<"a">>)
        /\ promises = <<[eventName |-> e, method |-> "waitFor", state |-> "pending",
                         value |-> Undefined]>>

\* C10: emit(e, a, ...) resolves with a every promise of waitFor(e) that is
\* pending when it is called.
C10_EmitResolvesEveryPendingWaitFor ==
    [][Step("emit") =>
        \A p \in 1..Len(promises) :
            (/\ promises[p].method = "waitFor"
             /\ promises[p].eventName = lastOp'.eventName[1]
             /\ promises[p].state = "pending")
                => /\ promises'[p].state = "resolved"
                   /\ promises'[p].value = Some(FirstArg(lastOp'.args))]_vars

\* C11: when e has been emitted since creation or the last reset,
\* waitForFirst(e) returns a promise that is already resolved, with the first
\* argument of that first emission.
C11_WaitForFirstAfterEmitResolvesAtOnce ==
    [][Step("waitForFirst") =>
        LET e == lastOp'.eventName[1]
        IN ~IsUndefined(firstEmitted[e]) =>
               /\ promises' = Append(promises,
                                     [eventName |-> e, method |-> "waitForFirst",
                                      state |-> "resolved",
                                      value |-> Some(FirstArg(firstEmitted[e][1]))])
               /\ IsUndefined(raised')]_vars

C11_Witness ==
    \E e \in EventNames :
        /\ lastOp.name = "waitForFirst"
        /\ lastOp.eventName = Some(e)
        /\ nOps = 3
        /\ firstEmitted[e] = Some(<<"b", "a">>)
        /\ ContentsOf(e).firstArgs = Some(<<"b", "a">>)
        /\ promises = <<[eventName |-> e, method |-> "waitForFirst",
                         state |-> "resolved", value |-> Some("b")]>>

\* C12: the first emit(e, a, ...) resolves with a every promise of
\* waitForFirst(e) that is pending, and a resolved promise does not change.
C12_FirstEmitResolvesEveryWaitForFirst ==
    [][/\ (Step("emit") /\ IsUndefined(firstEmitted[lastOp'.eventName[1]])) =>
            \A p \in 1..Len(promises) :
                (/\ promises[p].method = "waitForFirst"
                 /\ promises[p].eventName = lastOp'.eventName[1]
                 /\ promises[p].state = "pending")
                    => /\ promises'[p].state = "resolved"
                       /\ promises'[p].value = Some(FirstArg(lastOp'.args))
       /\ \A p \in 1..Len(promises) :
            (promises[p].method = "waitForFirst" /\ promises[p].state = "resolved")
                => promises'[p] = promises[p]]_vars

\* C13: a promise of waitFor or waitForFirst is never rejected, and its
\* listener is called at most once in the whole run: never while the promise
\* is pending, once when it is resolved.
C13_WaitNeverRejectedCalledAtMostOnce ==
    \A p \in 1..Len(promises) :
        /\ promises[p].state \in {"pending", "resolved"}
        /\ waitCalls[p] = (IF promises[p].state = "resolved" THEN 1 ELSE 0)

C13_Witness ==
    /\ lastOp.name = "emit"
    /\ nOps = 4
    /\ invoked = <<>>
    /\ Len(promises) = 2
    /\ promises[1].method = "waitFor"
    /\ promises[2].method = "waitForFirst"
    /\ waitCalls = <<1, 1>>

\* Whether a listener is in a list of some event name.
Listed(regs, listener) ==
    \E e \in EventNames :
        \/ listener \in Range(Contents(regs, e).listeners)
        \/ listener \in Range(Contents(regs, e).firstOnlyListeners)

\* C14: off(e) and off() leave every pending promise of waitFor(e) and
\* waitForFirst(e) pending and its listener in no list; and a pending promise
\* whose listener is in no list stays so through every later step.
C14_OffLeavesWaitPendingForever ==
    [][\A p \in 1..Len(promises) :
        /\ (/\ StepOff("all") \/ (StepOff("event")
                                  /\ lastOp'.eventName[1] = promises[p].eventName)
            /\ promises[p].state = "pending")
              => /\ promises'[p] = promises[p]
                 /\ ~Listed(registrations', <<"wait", p>>)
        /\ (promises[p].state = "pending" /\ ~Listed(registrations, <<"wait", p>>))
              => /\ promises'[p] = promises[p]
                 /\ ~Listed(registrations', <<"wait", p>>)]_vars

C14_Witness ==
    \E e \in EventNames :
        /\ lastOp.name = "emit"
        /\ lastOp.eventName = Some(e)
        /\ nOps = 3
        /\ promises = <<[eventName |-> e, method |-> "waitFor", state |-> "pending",
                         value |-> Undefined]>>
        /\ ~Listed(registrations, <<"wait", 1>>)

\* C15: a call raises only if it is a direct off(e, L), or if the error arose
\* in the body of a listener of the callers.
C15_OnlyDirectOffRaises ==
    [][(nOps' = nOps + 1 /\ ~IsUndefined(raised')) =>
        \/ StepOff("listener")
        \/ (~IsUndefined(thrownBy') /\ thrownBy'[1] \in Scripts)]_vars

Count(seq, item) == Cardinality({i \in 1..Len(seq) : seq[i] = item})

\* The listeners that the listeners called in a step removed: a wait listener
\* and script 1 remove themselves, scripts 2 and 3 remove spy 1.
RemovedDuring(calls) ==
    {IF c.listener \in {<<"script", 2>>, <<"script", 3>>} THEN <<"spy", 1>>
     ELSE c.listener : c \in {d \in Range(calls) : d.listener[1] \in {"wait", "script"}}}

\* The calls a pass over `listeners` owes to the listeners nobody removed.
NoneSkippedNoneTwice(calls, listeners, pass) ==
    \A l \in Range(listeners) \ RemovedDuring(calls) :
        Count(CallsOfPass(calls, pass), [listener |-> l, args |-> lastOp'.args,
                                         pass |-> pass]) = Count(listeners, l)

\* C16: when listeners remove themselves or others during emit(e), every other
\* listener that was in the walked list is still called exactly once per
\* occurrence, in the first-only pass and in the listeners pass.
C16_RemovalDuringEmitSkipsNothing ==
    [][(/\ Step("emit")
        /\ IsUndefined(raised')
        /\ \A c \in Range(invoked') : c.listener # <<"script", 4>>) =>
        LET e == lastOp'.eventName[1]
        IN /\ NoneSkippedNoneTwice(invoked', ContentsOf(e).listeners, "listeners")
           /\ IsUndefined(ContentsOf(e).firstArgs) =>
                  NoneSkippedNoneTwice(invoked', ContentsOf(e).firstOnlyListeners,
                                       "firstOnly")]_vars

\* C17: emit(e, args) calls, in this order, every first-only listener of e in
\* insertion order (on the first emission only), every listener of e in
\* insertion order, and every onAny listener in insertion order with
\* (e, ...args).
C17_ThreeOrderedPasses ==
    [][Step("emit") =>
        LET e == lastOp'.eventName[1]
            args == lastOp'.args
        IN invoked' =
               (IF IsUndefined(ContentsOf(e).firstArgs)
                THEN Expected(ContentsOf(e).firstOnlyListeners, args, "firstOnly")
                ELSE <<>>)
               \o Expected(ContentsOf(e).listeners, args, "listeners")
               \o Expected(anyRegistrations, <<e>> \o args, "any")]_vars

\* C18: every emit, of any event name and with or without a registration for
\* it, calls each onAny listener that offAny has not removed exactly once per
\* occurrence in anyRegistrations, with (e, ...args).
C18_OnAnyCalledOncePerOccurrence ==
    [][(Step("emit") /\ IsUndefined(raised')) =>
        \A l \in Range(anyRegistrations) \cap Range(anyRegistrations') :
            Count(CallsOfPass(invoked', "any"),
                  [listener |-> l,
                   args |-> <<lastOp'.eventName[1]>> \o lastOp'.args,
                   pass |-> "any"]) = Count(anyRegistrations, l)]_vars

\* C19: off(), off(e) and off(e, L) leave anyRegistrations as it was, whether
\* they raise or not; a step that takes a listener out of anyRegistrations is
\* an offAny call; and an emit calls every listener anyRegistrations holds.
C19_OffLeavesAnyRegistrations ==
    [][/\ Step("off") => anyRegistrations' = anyRegistrations
       /\ (\E l \in Range(anyRegistrations) :
               Count(anyRegistrations', l) < Count(anyRegistrations, l))
              => Step("offAny")
       /\ Step("emit") =>
              CallsOfPass(invoked', "any") =
                  Expected(anyRegistrations,
                           <<lastOp'.eventName[1]>> \o lastOp'.args, "any")]_vars

\* off() has run on an emitter with two onAny listeners and a listener of an
\* event name, and the onAny listeners are still there.
C19_Witness ==
    /\ lastOp.name = "off"
    /\ IsUndefined(lastOp.eventName)
    /\ nOps = 4
    /\ anyRegistrations = <<(<<"spy", 1>>), (<<"spy", 2>>)>>
    /\ registrations = [e \in EventNames |-> Undefined]

\* C20: offAny(L) removes every occurrence of L from anyRegistrations and from
\* listeners and firstOnlyListeners of every event name, keeps every other
\* listener in place and in order, keeps every firstArgs, creates no
\* registration, calls nothing and never raises, also when L is in no list.
C20_OffAnyRemovesEverywhere ==
    [][Step("offAny") =>
        LET L == lastOp'.listener[1]
        IN /\ anyRegistrations' = Without(anyRegistrations, L)
           /\ \A e \in EventNames :
                  IF IsUndefined(registrations[e])
                  THEN IsUndefined(registrations'[e])
                  ELSE /\ ~IsUndefined(registrations'[e])
                       /\ ContentsAfter(e) =
                              [firstArgs |-> ContentsOf(e).firstArgs,
                               firstOnlyListeners |->
                                   Without(ContentsOf(e).firstOnlyListeners, L),
                               listeners |-> Without(ContentsOf(e).listeners, L)]
           /\ IsUndefined(raised')
           /\ invoked' = <<>>
           /\ promises' = promises]_vars

\* offAny has removed a listener that was an onAny listener and a listener of
\* an event name at once; what is left is the other listener of that name.
C20_Witness ==
    \E e \in EventNames :
        /\ lastOp.name = "offAny"
        /\ lastOp.listener = Some(<<"spy", 1>>)
        /\ nOps = 4
        /\ anyRegistrations = <<>>
        /\ ~IsUndefined(registrations[e])
        /\ ContentsOf(e).listeners = <<(<<"spy", 2>>)>>

\* offAny has run with a listener that no list held, and nothing was raised.
C20_WitnessAbsent ==
    /\ lastOp.name = "offAny"
    /\ lastOp.listener = Some(<<"spy", 1>>)
    /\ IsUndefined(raised)
    /\ anyRegistrations = <<(<<"spy", 2>>)>>
    /\ ~Listed(registrations, <<"spy", 1>>)

\* C21: when a listener called during emit(e, ...) throws, emit raises that
\* error to its caller and the call of the throwing listener is the last call
\* of the emission: nothing more of its pass and nothing of the later passes
\* runs.  An emit raises only what a listener threw.
C21_ThrowEndsEmit ==
    [][Step("emit") =>
        /\ \A i \in 1..Len(invoked') :
               (\/ invoked'[i].listener = <<"script", 6>>
                \/ invoked'[i].listener = <<"script", 7>> /\ invoked'[i].args = <<>>) =>
                   /\ i = Len(invoked')
                   /\ raised' = Some(ListenerError)
        /\ ~IsUndefined(raised') =>
               /\ ~IsUndefined(thrownBy')
               /\ invoked'[Len(invoked')].listener = thrownBy'[1]]_vars

\* An emit has ended with the error of the throwing listener, which stood
\* before another listener of the event name and before an onAny listener.
C21_Witness ==
    /\ lastOp.name = "emit"
    /\ raised = Some(ListenerError)
    /\ thrownBy = Some(<<"script", 6>>)
    /\ ContentsOf("e1").listeners = <<(<<"script", 6>>), (<<"spy", 1>>)>>
    /\ anyRegistrations = <<(<<"spy", 1>>)>>
    /\ Len(invoked) = 1

\* C22 as stated: between public calls, an event name whose firstArgs is set
\* has no first-only listeners.
C22_FirstArgsSetMeansDrained ==
    \A e \in EventNames :
        ~IsUndefined(ContentsOf(e).firstArgs) => ContentsOf(e).firstOnlyListeners = <<>>

\* C22 as amended: while firstArgs of e is set, a listener gets into
\* firstOnlyListeners of e only through an onFirst(e, L) call made after the
\* first emission, which has called L with the first args; the listeners
\* registered before the first emission are all gone from the list when
\* firstArgs becomes set.
C22_OnlyLateOnFirstAfterDrain ==
    [][\A e \in EventNames : \A L \in Range(ContentsAfter(e).firstOnlyListeners) :
           (/\ ~IsUndefined(ContentsAfter(e).firstArgs)
            /\ Count(ContentsAfter(e).firstOnlyListeners, L) >
                   (IF IsUndefined(ContentsOf(e).firstArgs) THEN 0
                    ELSE Count(ContentsOf(e).firstOnlyListeners, L)))
           => /\ Step("onFirst")
              /\ lastOp'.eventName = Some(e)
              /\ lastOp'.listener = Some(L)
              /\ ContentsOf(e).firstArgs = ContentsAfter(e).firstArgs
              /\ ~IsUndefined(ContentsOf(e).firstArgs)
              /\ Len(invoked') > 0
              /\ invoked'[1] = [listener |-> L, args |-> ContentsOf(e).firstArgs[1],
                                pass |-> "immediate"]]_vars

\* A first-only listener was registered, the first emission drained it, and
\* two onFirst calls made afterwards have left their listeners in the list.
C22_Witness ==
    \E e \in EventNames :
        /\ nOps = 4
        /\ lastOp.name = "onFirst"
        /\ lastOp.eventName = Some(e)
        /\ ContentsOf(e).firstArgs = Some(<<"a">>)
        /\ ContentsOf(e).firstOnlyListeners = <<(<<"spy", 2>>), (<<"spy", 2>>)>>
        /\ invoked = <<[listener |-> <<"spy", 2>>, args |-> <<"a">>, pass |-> "immediate"]>>

\* C23: a public call leaves the firstArgs of an event name that were set as
\* they were, unless it is off(e) or off(), or a listener has called off(e),
\* which unset them; and no call assigns firstArgs over first args that had
\* been set, at any point of its run (nested emits included).
C23_FirstArgsSetOnce ==
    [][/\ \A e \in EventNames :
              ~IsUndefined(ContentsOf(e).firstArgs) =>
                  \/ ContentsAfter(e).firstArgs = ContentsOf(e).firstArgs
                  \/ /\ IsUndefined(ContentsAfter(e).firstArgs)
                     /\ \/ StepOff("all")
                        \/ StepOff("event") /\ lastOp'.eventName = Some(e)
                        \/ \E c \in Range(invoked') : c.listener = <<"script", 4>>
       /\ overwritten' = <<>>]_vars

\* Every listener some list of a registration holds.
ListenersIn(regs) ==
    UNION {Range(Contents(regs, e).listeners) \cup Range(Contents(regs, e).firstOnlyListeners) :
           e \in EventNames}

\* 1 if the step is a call that adds L to the list of e that `method` fills
\* ("on": on(e, L) and waitFor(e); "onFirst": onFirst(e, L) and
\* waitForFirst(e), whose listener belongs to the promise just made), else 0.
AddedBy(method, e, L) ==
    IF \/ Step(method) /\ lastOp'.eventName = Some(e) /\ lastOp'.listener = Some(L)
       \/ /\ Step(IF method = "on" THEN "waitFor" ELSE "waitForFirst")
          /\ lastOp'.eventName = Some(e)
          /\ L = <<"wait", Len(promises')>>
    THEN 1 ELSE 0

\* C24: a list never holds a listener more often than it was added since the
\* last reset of the event name.  Stated per step, which gives the bound by
\* induction (a reset empties both lists): the number of occurrences of L in
\* listeners of e grows by at most one, and only in on(e, L) or in the
\* waitFor(e) that made L; the number in firstOnlyListeners of e grows by at
\* most one, and only in onFirst(e, L) or in the waitForFirst(e) that made L.
C24_OccurrencesBoundedByAdds ==
    [][\A e \in EventNames : \A L \in ListenersIn(registrations') :
           /\ Count(ContentsAfter(e).listeners, L) <=
                  Count(ContentsOf(e).listeners, L) + AddedBy("on", e, L)
           /\ Count(ContentsAfter(e).firstOnlyListeners, L) <=
                  Count(ContentsOf(e).firstOnlyListeners, L) + AddedBy("onFirst", e, L)]_vars

\* Two on calls and two onFirst calls with the same listener for the same
\* event name have put it twice into each list.
C24_Witness ==
    \E e \in EventNames :
        /\ nOps = 4
        /\ lastOp.name \in {"on", "onFirst"}
        /\ ContentsOf(e).listeners = <<(<<"spy", 1>>), (<<"spy", 1>>)>>
        /\ ContentsOf(e).firstOnlyListeners = <<(<<"spy", 1>>), (<<"spy", 1>>)>>

\* The listeners of a list that are spies.
OnlySpies(listeners) == Range(listeners) \subseteq Spies

C26_MinimalLateOnFirstCallsAtOnce ==
    [][LET e == lastOp'.eventName[1]
       IN /\ (Step("onFirst") /\ ~IsUndefined(ContentsOf(e).firstArgs)) =>
                 invoked' = <<[listener |-> lastOp'.listener[1],
                               args |-> ContentsOf(e).firstArgs[1],
                               pass |-> "immediate"]>>
          /\ (Step("waitForFirst") /\ ~IsUndefined(ContentsOf(e).firstArgs)) =>
                 /\ promises'[Len(promises')].state = "resolved"
                 /\ promises'[Len(promises')].value =
                        Some(FirstArg(ContentsOf(e).firstArgs[1]))]_vars

\* C27: off(e, L) leaves the firstArgs of e, the registrations of the other
\* names, anyRegistrations and the promises as they were and calls nothing;
\* so an onFirst(e, L) that follows a removal still calls L at once with the
\* first args, and an emit of a name that has fired calls no first-only
\* listener.
C27_OffListenerKeepsFirstArgs ==
    [][LET e == lastOp'.eventName[1]
       IN /\ StepOff("listener") =>
                 /\ ContentsAfter(e).firstArgs = ContentsOf(e).firstArgs
                 /\ \A other \in EventNames \ {e} :
                        registrations'[other] = registrations[other]
                 /\ anyRegistrations' = anyRegistrations
                 /\ promises' = promises
                 /\ invoked' = <<>>
          /\ (Step("onFirst") /\ ~IsUndefined(ContentsOf(e).firstArgs)) =>
                 /\ Len(invoked') = 1
                 /\ invoked'[1].listener = lastOp'.listener[1]
                 /\ invoked'[1].args = ContentsOf(e).firstArgs[1]
          /\ (Step("emit") /\ ~IsUndefined(ContentsOf(e).firstArgs)) =>
                 CallsOfPass(invoked', "firstOnly") = <<>>]_vars

\* An off(e, L) made after the first emission of e, as in emit(e, "a");
\* onFirst(e, L); off(e, L), has left the first args in place and both lists
\* empty.
C27_Witness ==
    \E e \in EventNames :
        /\ nOps = 3
        /\ lastOp = Op("off", Some(e), Some(<<"spy", 1>>), <<>>)
        /\ IsUndefined(raised)
        /\ firstEmitted[e] = Some(<<"a">>)
        /\ ContentsOf(e) = [firstArgs |-> Some(<<"a">>), firstOnlyListeners |-> <<>>,
                            listeners |-> <<>>]

\* C28: onFirst(e, L) for a name that has fired appends L to
\* firstOnlyListeners of e after calling it; and off(e, L) for an L that
\* firstOnlyListeners of e holds removes it from there without raising.
C28_LateOnFirstAppendsForOff ==
    [][LET e == lastOp'.eventName[1]
           L == lastOp'.listener[1]
       IN /\ (Step("onFirst") /\ ~IsUndefined(ContentsOf(e).firstArgs)) =>
                 /\ IsUndefined(raised')
                 /\ ContentsAfter(e).firstOnlyListeners =
                        Append(ContentsOf(e).firstOnlyListeners, L)
          /\ (StepOff("listener") /\ L \in Range(ContentsOf(e).firstOnlyListeners)) =>
                 /\ IsUndefined(raised')
                 /\ ContentsAfter(e).firstOnlyListeners =
                        Without(ContentsOf(e).firstOnlyListeners, L)]_vars

\* emit(e); onFirst(e, L): L has been called with the args of the emit and is
\* now the one first-only listener of e.
C28_Witness ==
    \E e \in EventNames :
        /\ nOps = 2
        /\ lastOp = Op("onFirst", Some(e), Some(<<"spy", 2>>), <<>>)
        /\ ContentsOf(e) = [firstArgs |-> Some(<<"b", "a">>),
                            firstOnlyListeners |-> <<(<<"spy", 2>>)>>,
                            listeners |-> <<>>]
        /\ invoked = <<[listener |-> <<"spy", 2>>, args |-> <<"b", "a">>,
                        pass |-> "immediate"]>>

\* C29: the listener of a resolved waitFor or waitForFirst promise is in no
\* list of any registration, whether an emission resolved the promise or
\* waitForFirst did at once.
C29_ResolvedWaitLeavesNoResidue ==
    \A p \in 1..Len(promises) :
        promises[p].state = "resolved" => ~Listed(registrations, <<"wait", p>>)

\* A waitFor promise resolved by an emission and a waitForFirst promise
\* resolved at once afterwards, with a plain listener still registered.
C29_Witness ==
    \E e \in EventNames :
        /\ promises = <<[eventName |-> e, method |-> "waitFor", state |-> "resolved",
                         value |-> Some("a")],
                        [eventName |-> e, method |-> "waitForFirst",
                         state |-> "resolved", value |-> Some("a")]>>
        /\ ContentsOf(e) = [firstArgs |-> Some(<<"a">>), firstOnlyListeners |-> <<>>,
                            listeners |-> <<(<<"spy", 1>>)>>]

\* C30: the first emit(e, ...) calls each first-only listener registered
\* before it exactly once per occurrence in total, nested emits included: an
\* emit(e, ...) that a listener issues during the first emission does not
\* call the first-only listeners again.
C30_FirstOnlyDrainedOnceUnderReentrancy ==
    [][(/\ Step("emit")
        /\ IsUndefined(raised')
        /\ IsUndefined(ContentsOf(lastOp'.eventName[1]).firstArgs)
        /\ Range(ContentsOf(lastOp'.eventName[1]).firstOnlyListeners)
               \subseteq NestedCallbacks) =>
        LET firstOnlyListeners == ContentsOf(lastOp'.eventName[1]).firstOnlyListeners
        IN \A L \in Range(firstOnlyListeners) :
               Cardinality({i \in 1..Len(invoked') :
                                /\ invoked'[i].listener = L
                                /\ invoked'[i].pass = "firstOnly"})
                   = Count(firstOnlyListeners, L)]_vars

\* C31: an emission without arguments counts as the first emission.  After
\* an emit(e) with no args that returns, and in which no listener called
\* off(e), the firstArgs of e are set, to the empty argument list when they
\* were unset before; onFirst(e, L) on an event whose first args are the
\* empty list calls L at once, and first of all, with no arguments; and an
\* emit(e, x) on such an event calls no first-only listener.
C31_EmitWithoutArgsIsFirstEmission ==
    [][\A e \in EventNames :
          /\ (/\ Step("emit") /\ lastOp'.eventName = Some(e) /\ lastOp'.args = <<>>
              /\ IsUndefined(raised')
              /\ \A c \in Range(invoked') : c.listener # <<"script", 4>>)
                => /\ ~IsUndefined(ContentsAfter(e).firstArgs)
                   /\ IsUndefined(ContentsOf(e).firstArgs)
                          => ContentsAfter(e).firstArgs = Some(<<>>)
          /\ (Step("onFirst") /\ lastOp'.eventName = Some(e)
                 /\ ContentsOf(e).firstArgs = Some(<<>>))
                => /\ Len(invoked') > 0
                   /\ invoked'[1] = [listener |-> lastOp'.listener[1], args |-> <<>>,
                                      pass |-> "immediate"]
                   /\ CallsOfPass(invoked', "immediate") = <<invoked'[1]>>
          /\ (Step("emit") /\ lastOp'.eventName = Some(e)
                 /\ ContentsOf(e).firstArgs = Some(<<>>))
                => CallsOfPass(invoked', "firstOnly") = <<>>]_vars

\* emit("e1"); onFirst("e1", spy 1), which calls spy 1 with no arguments and
\* stores it; emit("e1", "a") then calls nobody.
C31_Witness ==
    /\ lastOp = Op("emit", Some("e1"), Undefined, <<"a">>)
    /\ nOps = 3
    /\ ContentsOf("e1").firstArgs = Some(<<>>)
    /\ ContentsOf("e1").firstOnlyListeners = <<<<"spy", 1>>>>
    /\ ContentsOf("e1").listeners = <<>>
    /\ anyRegistrations = <<>>
    /\ invoked = <<>>

\* C32: an off(e, L) that raises the non-existent-listener error leaves the
\* state as it was: the registration of every event name, the any-listeners
\* and the promises are those of before the call, except that e, when it had
\* no registration, has a new empty one.
C32_FailedOffChangesNothing ==
    [][(StepOff("listener") /\ ~IsUndefined(raised'))
          => /\ raised' = Some(NonExistentListenerError(lastOp'.eventName[1]))
             /\ anyRegistrations' = anyRegistrations
             /\ promises' = promises
             /\ \A e \in EventNames :
                    \/ registrations'[e] = registrations[e]
                    \/ /\ lastOp'.eventName = Some(e)
                       /\ IsUndefined(registrations[e])
                       /\ registrations'[e] = Some(FreshRegistration)]_vars

\* on("e2", spy 1); onAny(spy 2); off("e1", spy 1) raises and leaves e1
\* with a new empty registration.
C32_Witness ==
    /\ lastOp = Op("off", Some("e1"), Some(<<"spy", 1>>), <<>>)
    /\ nOps = 3
    /\ raised = Some(NonExistentListenerError("e1"))
    /\ registrations["e1"] = Some(FreshRegistration)
    /\ ContentsOf("e2").listeners = <<<<"spy", 1>>>>
    /\ anyRegistrations = <<<<"spy", 2>>>>

\* onFirst("e1", spy 1); emit("e1", "a"); off("e1", spy 1) raises and leaves
\* the first args of e1 as they were.
C32_WitnessKept ==
    /\ lastOp = Op("off", Some("e1"), Some(<<"spy", 1>>), <<>>)
    /\ nOps = 3
    /\ raised = Some(NonExistentListenerError("e1"))
    /\ ContentsOf("e1") = [firstArgs |-> Some(<<"a">>), firstOnlyListeners |-> <<>>,
                           listeners |-> <<>>]

\* The event name a call was made on.
NameOf(op) == op.eventName[1]

\* C33: event names are isolated.  on, onFirst, off(e), off(e, L), emit,
\* waitFor and waitForFirst on the name e leave the registration of every
\* other name as it was; and every listener emit(e, ...) calls in its
\* first-only pass or its listeners pass was in that list of e when the call
\* began, so that a listener stored under another name only is not called.
C33_EventNamesAreIsolated ==
    [][(/\ nOps' = nOps + 1
        /\ lastOp'.name \in {"on", "onFirst", "off", "emit", "waitFor", "waitForFirst"}
        /\ ~IsUndefined(lastOp'.eventName))
          => /\ \A other \in EventNames \ {NameOf(lastOp')} :
                    registrations'[other] = registrations[other]
             /\ Step("emit") =>
                    \A c \in Range(invoked') :
                        \/ /\ c.pass = "listeners"
                           /\ c.listener \in Range(ContentsOf(NameOf(lastOp')).listeners)
                        \/ /\ c.pass = "firstOnly"
                           /\ c.listener \in Range(ContentsOf(NameOf(lastOp')).firstOnlyListeners)
                        \/ /\ c.pass = "any"
                           /\ c.listener \in Range(anyRegistrations)]_vars

\* on("e1", spy 1); onFirst("e2", spy 2); waitFor("e2"); emit("e1", "a"): spy 1
\* alone is called, and e2 keeps its listeners, its unset first args and its
\* pending promise.
C33_Witness ==
    /\ lastOp = Op("emit", Some("e1"), Undefined, <<"a">>)
    /\ nOps = 4
    /\ invoked = <<[listener |-> <<"spy", 1>>, args |-> <<"a">>, pass |-> "listeners"]>>
    /\ ContentsOf("e2") = [firstArgs |-> Undefined,
                           firstOnlyListeners |-> <<<<"spy", 2>>>>,
                           listeners |-> <<<<"wait", 1>>>>]
    /\ promises[1].state = "pending"
\* C34: when a listener called in the first-only pass of the first
\* emit(e, ...) throws, the emit ends with the first args of e still unset
\* and the first-only listeners of e still in their list, the thrower among
\* them, and it has called no listener of the listeners pass or the any pass.
C34_ThrowInFirstPassLeavesFirstUnset ==
    [][\A e \in EventNames :
          (/\ Step("emit") /\ lastOp'.eventName = Some(e)
           /\ IsUndefined(ContentsOf(e).firstArgs)
           /\ ~IsUndefined(raised')
           /\ Len(invoked') > 0
           /\ invoked'[Len(invoked')].pass = "firstOnly")
             => /\ IsUndefined(ContentsAfter(e).firstArgs)
                /\ invoked'[Len(invoked')].listener
                       \in Range(ContentsAfter(e).firstOnlyListeners)
                /\ \A c \in Range(invoked') : c.pass = "firstOnly"]_vars

\* C35: an emit(e, ...) whose listeners do not emit returns after finitely
\* many listener calls, also when listeners add listeners to e with on or
\* onFirst while it runs: no emit is still running after MaxCalls calls.
C35_EmitReturns ==
    [][Step("emit") => raised' # Some(StillRunning)]_vars

\* C36: once a listener running inside emit(e, ...) has called off(e), the
\* emission calls no listener of e any more, in its first-only pass or its
\* listeners pass (the onAny listeners are not listeners of e), and so
\* resolves no promise of waitFor(e) or waitForFirst(e) that was pending.
C36_OffDuringEmitEndsDispatch ==
    [][Step("emit") =>
          \A i \in 1..Len(invoked') :
              invoked'[i].listener = <<"script", 4>> =>
                  /\ \A j \in (i + 1)..Len(invoked') : invoked'[j].pass = "any"
                  /\ \A p \in 1..Len(promises) :
                         (promises[p].state = "pending" /\ promises'[p].state = "resolved")
                             => \E j \in 1..(i - 1) : invoked'[j].listener = <<"wait", p>>]_vars

\* C37: removeFromArray(array, item) leaves the array without any element
\* identical to item and with all its other elements in their order, and
\* returns true exactly when the array held item.
C37_RemoveFromArrayRemovesAll ==
    lastOp.name = "removeFromArray" =>
        /\ anyRegistrations = Without(lastOp.args, lastOp.listener[1])
        /\ returned = Some(lastOp.listener[1] \in Range(lastOp.args))

\* removeFromArray([spy 1, spy 1, spy 2, spy 1], spy 1): two adjacent
\* matches and a match in last position.
C37_Witness ==
    /\ lastOp = Op("removeFromArray", Undefined, Some(<<"spy", 1>>),
                   <<(<<"spy", 1>>), (<<"spy", 1>>), (<<"spy", 2>>), (<<"spy", 1>>)>>)
    /\ anyRegistrations = <<(<<"spy", 2>>)>>
    /\ returned = Some(TRUE)

\* removeFromArray([spy 2, spy 2], spy 1) removes nothing and returns false.
C37_WitnessAbsent ==
    /\ lastOp = Op("removeFromArray", Undefined, Some(<<"spy", 1>>),
                   <<(<<"spy", 2>>), (<<"spy", 2>>)>>)
    /\ anyRegistrations = <<(<<"spy", 2>>), (<<"spy", 2>>)>>
    /\ returned = Some(FALSE)

====
